---- MODULE Spec2Model ----
(***************************************************************************)
(* A model of the ETL pipeline of src/etl/flows.py.                        *)
(*                                                                         *)
(* Spec      the orchestration: etl_pipeline calling its eight tasks, the  *)
(*           retry policy of each task, and the bronze/silver/gold tables  *)
(*           of the store, each holding the number of the run that wrote   *)
(*           it last (0: the table does not exist).                        *)
(* SpecData  the data: the frames the tasks pass on and the contents of    *)
(*           the silver and gold tables, for input files drawn from        *)
(*           bounded sets, every read and write succeeding.                *)
(* SpecCases the same run over the data, for the input files of the cases  *)
(*           the row flags and the KPI queries are specified for.          *)
(***************************************************************************)
EXTENDS Integers, Sequences, FiniteSets, TLC

VARIABLES
  run,           \* number of the run in progress or last finished, 0 before the first
  pc,            \* "idle", the task the flow is in, "completed" or "failed"
  roster,        \* state of data/raw/employee*.csv during this run
  timesheets,    \* state of data/raw/timesheet*.csv during this run
  nullIds,       \* rows of the roster of this run with an empty client_employee_id
  store,         \* table name -> run that wrote it last, 0 when absent
  silverNullIds, \* rows of silver_employees with client_employee_id IS NULL
  storeAtStart,  \* store as it was when this run started
  started,       \* the tasks this run has called, in call order
  completed,     \* the tasks of this run that returned normally, in order
  attempts,      \* task -> attempts made in this run
  logged,        \* the kinds of log records this run has emitted
  waited,        \* seconds this run has spent in retry delays
  kpiFailed,     \* 0, or the catalogue index of the KPI query that raised in this run
  rosterFile,      \* the rows of data/raw/employee*.csv, fields as written
  timesheetFiles,  \* the files data/raw/timesheet*.csv in sorted order, each its rows
  dpc,             \* the task the data of the run is at, "idle" or "done"
  drun,            \* the number of the run over these files
  now,             \* datetime.now() of transform_employees in this run
  emp_df,          \* the employee frame passed between the tasks
  ts_df,           \* the timesheet frame passed between the tasks
  emp_clean,       \* the frame transform_employees returned
  ts_clean,        \* the frame transform_timesheets returned
  silver_employees,   \* rows of the table silver_employees
  silver_timesheets,  \* rows of the table silver_timesheets
  null_check,         \* what validate_data_quality counted last
  gold,               \* KPI table -> whether it exists, and its rows
  gold1,              \* gold as the first run over the files left it
  now1                \* now of the first run over the files

pipeVars == <<run, pc, roster, timesheets, nullIds, store, silverNullIds,
              storeAtStart, started, completed, attempts, logged, waited, kpiFailed>>

dataVars == <<rosterFile, timesheetFiles, dpc, drun, now, emp_df, ts_df,
              emp_clean, ts_clean,
              silver_employees, silver_timesheets, null_check, gold, gold1, now1>>

vars == <<pipeVars, dataVars>>

---------------------------------------------------------------------------
(* Bounds of the model *)

MaxRuns == 2
MaxNullIds == 1
MaxEmpRows == 2
MaxTsRows == 2
MaxHoursRows == 3
MaxTenureRows == 3
MaxMonthRows == 2
MaxDays == 35
MaxEmployees == 21

---------------------------------------------------------------------------
(* Cell values.  A text is a tuple of one-character strings; NaN is the     *)
(* missing value pandas puts where the file has an empty field.             *)

NaN == <<"NaN">>

Digits == <<"0", "1", "2", "3", "4", "5", "6", "7", "8", "9">>

IsDigit(c) == \E i \in 1..10 : Digits[i] = c

DigitVal(c) == (CHOOSE i \in 1..10 : Digits[i] = c) - 1

AllDigits(s) == \A i \in 1..Len(s) : IsDigit(s[i])

\* int() of a text of digits
RECURSIVE Num(_)
Num(s) == IF s = <<>> THEN 0 ELSE 10 * Num(SubSeq(s, 1, Len(s) - 1)) + DigitVal(s[Len(s)])

IsSpace(c) == c = " "

\* str.strip
RECURSIVE LStrip(_)
LStrip(s) == IF s # <<>> /\ IsSpace(s[1]) THEN LStrip(Tail(s)) ELSE s

RECURSIVE RStrip(_)
RStrip(s) ==
  IF s # <<>> /\ IsSpace(s[Len(s)]) THEN RStrip(SubSeq(s, 1, Len(s) - 1)) ELSE s

strip(s) == RStrip(LStrip(s))

\* the lambda of applymap: x.strip() if isinstance(x, str) else x
StripCell(x) == IF x = NaN THEN x ELSE strip(x)

\* pd.read_csv of one field read as text: an empty field is NaN, any other
\* field is kept as it stands in the file, surrounding blanks and leading
\* zeros included (dtype=str for the identifier columns)
ReadField(f) == IF f = <<>> THEN NaN ELSE f

---------------------------------------------------------------------------
(* Timestamps.  A timestamp is a record of its calendar fields and the      *)
(* seconds into its day; NaT is the missing timestamp.                      *)

NaT == [y |-> 0, m |-> 0, d |-> 0, sec |-> 0]

IsLeap(y) == (y % 4 = 0 /\ y % 100 # 0) \/ y % 400 = 0

DaysInMonth(y, m) ==
  IF m = 2 THEN (IF IsLeap(y) THEN 29 ELSE 28)
  ELSE IF m \in {4, 6, 9, 11} THEN 30 ELSE 31

RECURSIVE DaysBeforeMonth(_, _)
DaysBeforeMonth(y, m) ==
  IF m <= 1 THEN 0 ELSE DaysBeforeMonth(y, m - 1) + DaysInMonth(y, m - 1)

\* the proleptic Gregorian ordinal of a date (0001-01-01 is day 1)
Ordinal(t) ==
  LET y1 == t.y - 1
  IN 365 * y1 + (y1 \div 4) - (y1 \div 100) + (y1 \div 400)
       + DaysBeforeMonth(t.y, t.m) + t.d

\* "YYYY-MM-DD" of a calendar date that exists
IsDateText(s) ==
  /\ Len(s) = 10
  /\ s[5] = "-" /\ s[8] = "-"
  /\ AllDigits(SubSeq(s, 1, 4)) /\ AllDigits(SubSeq(s, 6, 7)) /\ AllDigits(SubSeq(s, 9, 10))
  /\ Num(SubSeq(s, 1, 4)) >= 1
  /\ Num(SubSeq(s, 6, 7)) \in 1..12
  /\ Num(SubSeq(s, 9, 10)) \in 1..DaysInMonth(Num(SubSeq(s, 1, 4)), Num(SubSeq(s, 6, 7)))

\* "HH:MM:SS" of a time of day that exists
IsTimeText(s) ==
  /\ Len(s) = 8
  /\ s[3] = ":" /\ s[6] = ":"
  /\ AllDigits(SubSeq(s, 1, 2)) /\ AllDigits(SubSeq(s, 4, 5)) /\ AllDigits(SubSeq(s, 7, 8))
  /\ Num(SubSeq(s, 1, 2)) <= 23
  /\ Num(SubSeq(s, 4, 5)) <= 59
  /\ Num(SubSeq(s, 7, 8)) <= 59

\* pd.to_datetime(errors='coerce') of one cell: "YYYY-MM-DD" is midnight of that
\* day, "YYYY-MM-DD HH:MM:SS" that second; NaN and every text that is no
\* timestamp become NaT
to_datetime(x) ==
  IF x = NaN THEN NaT
  ELSE IF IsDateText(x)
    THEN [y |-> Num(SubSeq(x, 1, 4)), m |-> Num(SubSeq(x, 6, 7)),
          d |-> Num(SubSeq(x, 9, 10)), sec |-> 0]
  ELSE IF Len(x) = 19 /\ IsDateText(SubSeq(x, 1, 10)) /\ x[11] = " "
          /\ IsTimeText(SubSeq(x, 12, 19))
    THEN [y |-> Num(SubSeq(x, 1, 4)), m |-> Num(SubSeq(x, 6, 7)),
          d |-> Num(SubSeq(x, 9, 10)),
          sec |-> 3600 * Num(SubSeq(x, 12, 13)) + 60 * Num(SubSeq(x, 15, 16))
                    + Num(SubSeq(x, 18, 19))]
  ELSE NaT

isna(t) == t = NaT

\* (a - b).dt.total_seconds() of two timestamps that are not NaT
TotalSeconds(a, b) == (Ordinal(a) - Ordinal(b)) * 86400 + (a.sec - b.sec)

\* the texts the input files are written with
Digit2(n) == <<Digits[(n \div 10) + 1], Digits[(n % 10) + 1]>>

Digit4(n) == Digit2(n \div 100) \o Digit2(n % 100)

DateText(y, m, d) == Digit4(y) \o <<"-">> \o Digit2(m) \o <<"-">> \o Digit2(d)

TimeText(h, mi, s) == Digit2(h) \o <<":">> \o Digit2(mi) \o <<":">> \o Digit2(s)

StampText(y, m, d, h, mi, s) == DateText(y, m, d) \o <<" ">> \o TimeText(h, mi, s)

---------------------------------------------------------------------------
(* The flow and its tasks *)

\* etl_pipeline: the calls of the flow body, in program order
Flow == << "extract_employees", "extract_timesheets", "load_to_bronze",
           "transform_employees", "transform_timesheets", "load_to_silver",
           "validate_data_quality", "generate_kpis" >>

Tasks == { Flow[i] : i \in 1..Len(Flow) }

\* retry_delay_seconds of the @task decorators that set retries
retry_delay_seconds == 10

\* @task(retries=...) of each task; a decorator without retries= retries nothing
Retries(t) ==
  CASE t = "extract_employees"  -> 2
    [] t = "extract_timesheets" -> 2
    [] t = "load_to_bronze"     -> 2
    [] OTHER                    -> 0

\* kpi_queries: the catalogue, in the order the loop of generate_kpis walks it
kpi_queries == << "kpi_active_headcount", "kpi_turnover_trend", "kpi_avg_tenure",
                  "kpi_avg_working_hours", "kpi_late_arrivals",
                  "kpi_early_departures", "kpi_overtime", "kpi_rolling_avg",
                  "kpi_early_attrition" >>

BronzeTables == {"bronze_employees", "bronze_timesheets"}
SilverTables == {"silver_employees", "silver_timesheets"}
GoldTables   == { kpi_queries[i] : i \in 1..Len(kpi_queries) }
Tables       == BronzeTables \cup SilverTables \cup GoldTables

FileStates == {"present", "missing", "unreadable"}

Position(t) == CHOOSE i \in 1..Len(Flow) : Flow[i] = t

\* the flow calls its tasks one after the other: the statement after the call of t
AfterTask(t) ==
  IF Position(t) < Len(Flow) THEN Flow[Position(t) + 1] ELSE "completed"

\* (variant for C1) the exception of the last attempt is swallowed and the flow
\* goes on to its next call
AfterFailureSwallowed(t, made) == IF made <= Retries(t) THEN t ELSE AfterTask(t)

\* what an exception leaving an attempt of t leads to: Prefect re-runs the task
\* while it has retries left, then the exception leaves the flow
AfterFailure(t, made) == IF made <= Retries(t) THEN t ELSE "failed"

\* The end of one attempt of task t: ok when the task function returned, else it
\* raised. logs are the records the attempt wrote.
TaskEnd(t, ok, logs) ==
  LET made == attempts[t] + 1
      next == IF ok THEN AfterTask(t) ELSE AfterFailure(t, made)
  IN /\ attempts' = [attempts EXCEPT ![t] = made]
     /\ logged' = logged \cup logs
     /\ waited' = IF next = t THEN waited + retry_delay_seconds ELSE waited
     /\ completed' = IF ok THEN Append(completed, t) ELSE completed
     /\ pc' = next
     /\ started' = IF next \in Tasks /\ next # t THEN Append(started, next) ELSE started

---------------------------------------------------------------------------
(* The tasks *)

\* (variant for C4) an extract that returns a frame whether or not a file matches
ExtractEmployeesOkAnyFile(file, transient) == ~transient

\* the try block of extract_employees returns the frame iff a file matches the
\* glob and read_csv reads it
ExtractEmployeesOk(file, transient) == file = "present" /\ ~transient

extract_employees ==
  /\ pc = "extract_employees"
  /\ UNCHANGED dataVars
  /\ \E transient \in BOOLEAN :
       LET ok == ExtractEmployeesOk(roster, transient)
       IN TaskEnd("extract_employees", ok,
                  IF ok THEN {"extracted_employees"} ELSE {"employee_extraction_failed"})
  /\ UNCHANGED <<run, roster, timesheets, nullIds, store, silverNullIds,
                 storeAtStart, kpiFailed>>

\* (variant for C17) an extract that returns an empty frame when no file matches
ExtractTimesheetsOkNoFiles(files, transient) == ~transient

\* extract_timesheets: pd.concat of an empty list raises, as does a failed read
ExtractTimesheetsOk(files, transient) == files = "present" /\ ~transient

extract_timesheets ==
  /\ pc = "extract_timesheets"
  /\ UNCHANGED dataVars
  /\ \E transient \in BOOLEAN :
       LET ok == ExtractTimesheetsOk(timesheets, transient)
       IN TaskEnd("extract_timesheets", ok,
                  IF ok THEN {"extracted_timesheets"} ELSE {"timesheet_extraction_failed"})
  /\ UNCHANGED <<run, roster, timesheets, nullIds, store, silverNullIds,
                 storeAtStart, kpiFailed>>

\* load_to_bronze: the point at which an attempt raises, "none" when it returns
BronzeSteps == {"none", "drop", "employees", "timesheets"}

\* the store after an attempt of load_to_bronze that raised at step failAt: the
\* two DROPs commit together, then each to_sql creates its table
BronzeStore(s, r, failAt) ==
  CASE failAt = "drop"       -> s
    [] failAt = "employees"  -> [s EXCEPT !["bronze_timesheets"] = 0,
                                          !["bronze_employees"] = 0]
    [] failAt = "timesheets" -> [s EXCEPT !["bronze_timesheets"] = 0,
                                          !["bronze_employees"] = r]
    [] OTHER                 -> [s EXCEPT !["bronze_timesheets"] = r,
                                          !["bronze_employees"] = r]

load_to_bronze ==
  /\ pc = "load_to_bronze"
  /\ UNCHANGED dataVars
  /\ \E failAt \in BronzeSteps :
       /\ store' = BronzeStore(store, run, failAt)
       /\ TaskEnd("load_to_bronze", failAt = "none",
                  IF failAt = "none" THEN {"loaded_bronze"} ELSE {"bronze_load_failed"})
  /\ UNCHANGED <<run, roster, timesheets, nullIds, silverNullIds, storeAtStart,
                 kpiFailed>>

\* the transforms work on the frames in memory only
transform_employees ==
  /\ pc = "transform_employees"
  /\ UNCHANGED dataVars
  /\ \E ok \in BOOLEAN :
       TaskEnd("transform_employees", ok,
               IF ok THEN {"transformed_employees"} ELSE {"employee_transformation_failed"})
  /\ UNCHANGED <<run, roster, timesheets, nullIds, store, silverNullIds,
                 storeAtStart, kpiFailed>>

transform_timesheets ==
  /\ pc = "transform_timesheets"
  /\ UNCHANGED dataVars
  /\ \E ok \in BOOLEAN :
       TaskEnd("transform_timesheets", ok,
               IF ok THEN {"transformed_timesheets"} ELSE {"timesheet_transformation_failed"})
  /\ UNCHANGED <<run, roster, timesheets, nullIds, store, silverNullIds,
                 storeAtStart, kpiFailed>>

SilverSteps == {"none", "employees", "timesheets"}

\* a to_sql(if_exists='replace') that raised leaves the table as it was, or
\* dropped when the DROP was not rolled back
ToSqlFailed(old) == {old, 0}

load_to_silver ==
  /\ pc = "load_to_silver"
  /\ UNCHANGED dataVars
  /\ \E failAt \in SilverSteps :
       /\ \/ /\ failAt = "none"
             /\ store' = [store EXCEPT !["silver_employees"] = run,
                                       !["silver_timesheets"] = run]
             /\ silverNullIds' = nullIds
          \/ /\ failAt = "employees"
             /\ \E v \in ToSqlFailed(store["silver_employees"]) :
                  /\ store' = [store EXCEPT !["silver_employees"] = v]
                  /\ silverNullIds' = IF v = 0 THEN 0 ELSE silverNullIds
          \/ /\ failAt = "timesheets"
             /\ \E v \in ToSqlFailed(store["silver_timesheets"]) :
                  store' = [store EXCEPT !["silver_employees"] = run,
                                         !["silver_timesheets"] = v]
             /\ silverNullIds' = nullIds
       /\ TaskEnd("load_to_silver", failAt = "none",
                  IF failAt = "none" THEN {"loaded_silver"} ELSE {"silver_load_failed"})
  /\ UNCHANGED <<run, roster, timesheets, nullIds, storeAtStart, kpiFailed>>

\* (variant for C3) a gate that raises when it counts null ids
ValidateOkBlocking(queriesRan, null_ids) == queriesRan /\ null_ids = 0

\* validate_data_quality returns iff its queries ran: the counts they find
\* decide what is logged, never whether it raises
ValidateOk(queriesRan, null_ids) == queriesRan

\* the records of one attempt of validate_data_quality: the null check is logged
\* once the queries have run, then the warning when it counted null ids
QualityLogs(queriesRan, null_ids, ok) ==
  (IF queriesRan THEN {"null_check"} ELSE {})
    \cup (IF queriesRan /\ null_ids > 0 THEN {"null_id_warning"} ELSE {})
    \cup (IF ok THEN {"quality_passed"} ELSE {"quality_check_failed"})

validate_data_quality ==
  /\ pc = "validate_data_quality"
  /\ UNCHANGED dataVars
  /\ \E queriesRan \in BOOLEAN :
       LET ok == ValidateOk(queriesRan, silverNullIds)
       IN TaskEnd("validate_data_quality", ok, QualityLogs(queriesRan, silverNullIds, ok))
  /\ UNCHANGED <<run, roster, timesheets, nullIds, store, silverNullIds,
                 storeAtStart, kpiFailed>>

\* generate_kpis: the catalogue indexes the loop has committed when the query of
\* index failAt raises (0: none raises). The loop sits inside one try whose
\* handler logs and re-raises, so nothing after failAt is run; the DROP and
\* CREATE of failAt itself are in the connection that is closed uncommitted.
Materialized(failAt) ==
  IF failAt = 0 THEN 1..Len(kpi_queries) ELSE 1..(failAt - 1)

GoldStore(s, r, failAt) ==
  [t \in Tables |->
     IF \E i \in Materialized(failAt) : kpi_queries[i] = t THEN r ELSE s[t]]

generate_kpis ==
  /\ pc = "generate_kpis"
  /\ UNCHANGED dataVars
  /\ \E failAt \in 0..Len(kpi_queries) :
       /\ store' = GoldStore(store, run, failAt)
       /\ kpiFailed' = failAt
       /\ TaskEnd("generate_kpis", failAt = 0,
                  IF failAt = 0 THEN {"generated_kpis"} ELSE {"kpi_generation_failed"})
  /\ UNCHANGED <<run, roster, timesheets, nullIds, silverNullIds, storeAtStart>>

\* a run of the flow: python -m / a deployment calls etl_pipeline()
etl_pipeline ==
  /\ pc \in {"idle", "completed", "failed"}
  /\ UNCHANGED dataVars
  /\ run < MaxRuns
  /\ run' = run + 1
  /\ \E r \in FileStates, t \in {"present", "missing"}, n \in 0..MaxNullIds :
       /\ roster' = r
       /\ timesheets' = t
       /\ nullIds' = n
  /\ pc' = Flow[1]
  /\ started' = <<Flow[1]>>
  /\ completed' = <<>>
  /\ attempts' = [t \in Tasks |-> 0]
  /\ logged' = {}
  /\ waited' = 0
  /\ kpiFailed' = 0
  /\ storeAtStart' = store
  /\ UNCHANGED <<store, silverNullIds>>

\* no data is followed: the files are empty and no frame or table holds a row
DataIdle ==
  /\ rosterFile = <<>>
  /\ timesheetFiles = <<>>
  /\ dpc = "idle"
  /\ drun = 0
  /\ now = NaT
  /\ emp_df = <<>>
  /\ ts_df = <<>>
  /\ emp_clean = <<>>
  /\ ts_clean = <<>>
  /\ silver_employees = <<>>
  /\ silver_timesheets = <<>>
  /\ null_check = <<0, 0, 0>>
  /\ gold = [t \in GoldTables |-> [exists |-> FALSE, rows |-> <<>>]]
  /\ gold1 = gold
  /\ now1 = NaT

Init ==
  /\ run = 0
  /\ pc = "idle"
  /\ roster = "present"
  /\ timesheets = "present"
  /\ nullIds = 0
  /\ store = [t \in Tables |-> 0]
  /\ silverNullIds = 0
  /\ storeAtStart = [t \in Tables |-> 0]
  /\ started = <<>>
  /\ completed = <<>>
  /\ attempts = [t \in Tasks |-> 0]
  /\ logged = {}
  /\ waited = 0
  /\ kpiFailed = 0
  /\ DataIdle

Next ==
  \/ etl_pipeline
  \/ extract_employees
  \/ extract_timesheets
  \/ load_to_bronze
  \/ transform_employees
  \/ transform_timesheets
  \/ load_to_silver
  \/ validate_data_quality
  \/ generate_kpis

Spec == Init /\ [][Next]_vars

---------------------------------------------------------------------------
(* The data of a run: files, frames and silver tables.                      *)
(* Only the columns that a derived column or a KPI query reads are kept.    *)
(* Floats that carry hours are counted in hundredths, minutes_late and      *)
(* minutes_early in sixtieths of a minute (seconds); a float cell is <<v>>, *)
(* or <<>> when it is NaN.                                                  *)

\* "H.HH" texts of a numeric column: read_csv parses them as floats
IsFloatText(s) ==
  /\ Len(s) >= 1
  /\ \E k \in 1..(Len(s) + 1) :
       /\ k > 1
       /\ AllDigits(SubSeq(s, 1, k - 1))
       /\ \/ k = Len(s) + 1
          \/ /\ s[k] = "."
             /\ Len(s) - k \in 1..2
             /\ AllDigits(SubSeq(s, k + 1, Len(s)))

Hundredths(s) ==
  LET k == CHOOSE k \in 1..(Len(s) + 1) : k = Len(s) + 1 \/ s[k] = "."
      frac == SubSeq(s, k + 1, Len(s))
  IN 100 * Num(SubSeq(s, 1, k - 1))
       + (IF Len(frac) = 1 THEN 10 * Num(frac) ELSE Num(frac))

\* pd.read_csv of one field of the column hours_worked
ReadFloat(f) == IF IsFloatText(f) THEN <<Hundredths(f)>> ELSE <<>>

\* extract_employees: read_csv with the identifier columns as text, then every
\* text cell stripped
ExtractEmployees(file) ==
  [i \in 1..Len(file) |->
     [client_employee_id |-> StripCell(ReadField(file[i].client_employee_id)),
      hire_date          |-> StripCell(ReadField(file[i].hire_date)),
      term_date          |-> StripCell(ReadField(file[i].term_date)),
      department_name    |-> StripCell(ReadField(file[i].department_name))]]

\* one timesheet file as read by extract_timesheets: read_csv with the
\* identifier column as text; only the column names are stripped
ReadTimesheetFile(file) ==
  [i \in 1..Len(file) |->
     [client_employee_id       |-> ReadField(file[i].client_employee_id),
      punch_apply_date         |-> ReadField(file[i].punch_apply_date),
      punch_in_datetime        |-> ReadField(file[i].punch_in_datetime),
      punch_out_datetime       |-> ReadField(file[i].punch_out_datetime),
      scheduled_start_datetime |-> ReadField(file[i].scheduled_start_datetime),
      scheduled_end_datetime   |-> ReadField(file[i].scheduled_end_datetime),
      hours_worked             |-> ReadFloat(file[i].hours_worked),
      pay_code                 |-> ReadField(file[i].pay_code)]]

\* pd.concat(dfs, ignore_index=True) over the files in sorted order
RECURSIVE ConcatFiles(_)
ConcatFiles(files) ==
  IF files = <<>> THEN <<>>
  ELSE ReadTimesheetFile(Head(files)) \o ConcatFiles(Tail(files))

ExtractTimesheets(files) == ConcatFiles(files)

\* drop_duplicates(subset=..., keep='first'): keys[i] is the subset of row i; a
\* row stays iff no earlier row has its key (NaN equals NaN here)
RECURSIVE KeepFirst(_, _, _)
KeepFirst(df, keys, n) ==
  IF n = 0 THEN <<>>
  ELSE LET rest == KeepFirst(df, keys, n - 1)
       IN IF \A j \in 1..(n - 1) : keys[j] # keys[n]
          THEN Append(rest, df[n]) ELSE rest

drop_duplicates(df, keys) == KeepFirst(df, keys, Len(df))

\* the subset of transform_timesheets: the cells as extracted
TimesheetKey(r) == <<r.client_employee_id, r.punch_in_datetime>>

\* the subset of transform_employees
EmployeeKey(r) == <<r.client_employee_id>>

LowerCase == <<"a", "b", "c", "d", "e", "f", "g", "h", "i", "j", "k", "l", "m",
               "n", "o", "p", "q", "r", "s", "t", "u", "v", "w", "x", "y", "z">>
UpperCase == <<"A", "B", "C", "D", "E", "F", "G", "H", "I", "J", "K", "L", "M",
               "N", "O", "P", "Q", "R", "S", "T", "U", "V", "W", "X", "Y", "Z">>

Lower(c) ==
  IF \E i \in 1..26 : UpperCase[i] = c
  THEN LowerCase[CHOOSE i \in 1..26 : UpperCase[i] = c] ELSE c

normal_worked == <<"n", "o", "r", "m", "a", "l", "_", "w", "o", "r", "k", "e", "d">>

\* Series.str.contains(pat, case=False, na=False) of one cell
str_contains(x, pat) ==
  /\ x # NaN
  /\ \E k \in 0..(Len(x) - Len(pat)) :
       \A i \in 1..Len(pat) : Lower(x[k + i]) = Lower(pat[i])

\* ((a - b).dt.total_seconds() / 60).fillna(0), in sixtieths of a minute
MinutesBetween(a, b) == IF isna(a) \/ isna(b) THEN 0 ELSE TotalSeconds(a, b)

\* the grace period of the anomaly marks, in minutes
GraceMinutes == 5

\* (variant for C10) a grace period that ends before its last minute is over
ExceedsGraceInclusive(minutes) == IF minutes >= GraceMinutes * 60 THEN 1 ELSE 0

\* (minutes > 5).astype(int), minutes in sixtieths
ExceedsGrace(minutes) == IF minutes > GraceMinutes * 60 THEN 1 ELSE 0

\* the overtime threshold, 8.5 hours, in hundredths
OvertimeHours == 850

\* (variant for C11) overtime from the threshold on
IsOvertimeInclusive(h) == IF h # <<>> /\ h[1] >= OvertimeHours THEN 1 ELSE 0

\* (hours_worked > 8.5).astype(int): a comparison with NaN is False
IsOvertime(h) == IF h # <<>> /\ h[1] > OvertimeHours THEN 1 ELSE 0

\* the row of transform_timesheets for a row that survived drop_duplicates
TimesheetRow(r) ==
  LET pin    == to_datetime(r.punch_in_datetime)
      pout   == to_datetime(r.punch_out_datetime)
      sstart == to_datetime(r.scheduled_start_datetime)
      send   == to_datetime(r.scheduled_end_datetime)
      late   == MinutesBetween(pin, sstart)
      early  == MinutesBetween(send, pout)
  IN [client_employee_id       |-> r.client_employee_id,
      punch_apply_date         |-> to_datetime(r.punch_apply_date),
      punch_in_datetime        |-> pin,
      punch_out_datetime       |-> pout,
      scheduled_start_datetime |-> sstart,
      scheduled_end_datetime   |-> send,
      hours_worked             |-> r.hours_worked,
      pay_code                 |-> r.pay_code,
      is_normal_work           |-> IF str_contains(r.pay_code, normal_worked) THEN 1 ELSE 0,
      minutes_late             |-> late,
      minutes_early            |-> early,
      is_late                  |-> ExceedsGrace(late),
      is_early                 |-> ExceedsGrace(early),
      is_overtime              |-> IsOvertime(r.hours_worked)]

\* transform_timesheets: duplicates are dropped on the extracted cells, then the
\* date columns are coerced and the derived columns added
TransformTimesheets(df) ==
  LET kept == drop_duplicates(df, [i \in 1..Len(df) |-> TimesheetKey(df[i])])
  IN [i \in 1..Len(kept) |-> TimesheetRow(kept[i])]

\* (variant for C12) the days of the difference, rounded to the nearest
DaysBetweenNearest(a, b) == (TotalSeconds(a, b) + 43200) \div 86400

\* (a - b).dt.days: the whole days of the difference, rounded down
DaysBetween(a, b) == TotalSeconds(a, b) \div 86400

\* (variant for C7) term_date is filled with the run time in place, so the
\* column that is stored carries it
EmployeeRowFilled(r, n) ==
  LET hire == to_datetime(r.hire_date)
      term == to_datetime(r.term_date)
      end  == IF isna(term) THEN n ELSE term
  IN [client_employee_id |-> r.client_employee_id,
      hire_date          |-> hire,
      term_date          |-> end,
      department_name    |-> r.department_name,
      is_active          |-> IF isna(term) THEN 1 ELSE 0,
      tenure_days        |-> IF isna(hire) THEN <<>> ELSE <<DaysBetween(end, hire)>>]

\* the row of transform_employees; tenure_days is NaN when hire_date is NaT
EmployeeRow(r, n) ==
  LET hire == to_datetime(r.hire_date)
      term == to_datetime(r.term_date)
      end  == IF isna(term) THEN n ELSE term
  IN [client_employee_id |-> r.client_employee_id,
      hire_date          |-> hire,
      term_date          |-> term,
      department_name    |-> r.department_name,
      is_active          |-> IF isna(term) THEN 1 ELSE 0,
      tenure_days        |-> IF isna(hire) THEN <<>> ELSE <<DaysBetween(end, hire)>>]

\* transform_employees at run time n
TransformEmployees(df, n) ==
  LET kept == drop_duplicates(df, [i \in 1..Len(df) |-> EmployeeKey(df[i])])
  IN [i \in 1..Len(kept) |-> EmployeeRow(kept[i], n)]

---------------------------------------------------------------------------
(* The KPI queries, as functions of the rows of the two silver tables.      *)
(* A table is kept as the sequence of its rows in the order of its ORDER BY; *)
(* rows that tie keep the order in which their groups first appear.  ROUND  *)
(* results are counted in hundredths.                                       *)

RECURSIVE SumSeq(_)
SumSeq(s) == IF s = <<>> THEN 0 ELSE Head(s) + SumSeq(Tail(s))

\* the values of a sequence without repetitions, in order of first appearance
Distinct(s) == KeepFirst(s, s, Len(s))

\* ROUND(a / b) of numeric, b > 0: halves are rounded away from zero
RoundDiv(a, b) ==
  IF a >= 0 THEN (2 * a + b) \div (2 * b) ELSE -((2 * (-a) + b) \div (2 * b))

\* a < b for sort keys, tuples of integers of one length
RECURSIVE LexLess(_, _)
LexLess(a, b) ==
  /\ a # <<>>
  /\ \/ Head(a) < Head(b)
     \/ Head(a) = Head(b) /\ LexLess(Tail(a), Tail(b))

\* ORDER BY ... DESC over <<key, row>> pairs
InsertDesc(sorted, p) ==
  LET k == Cardinality({i \in 1..Len(sorted) : ~LexLess(sorted[i][1], p[1])})
  IN SubSeq(sorted, 1, k) \o <<p>> \o SubSeq(sorted, k + 1, Len(sorted))

RECURSIVE SortDescN(_, _)
SortDescN(pairs, n) ==
  IF n = 0 THEN <<>> ELSE InsertDesc(SortDescN(pairs, n - 1), pairs[n])

OrderByDesc(pairs) ==
  LET sorted == SortDescN(pairs, Len(pairs))
  IN [i \in 1..Len(sorted) |-> sorted[i][2]]

\* ORDER BY ... ASC over <<key, row>> pairs
InsertAsc(sorted, p) ==
  LET k == Cardinality({i \in 1..Len(sorted) : ~LexLess(p[1], sorted[i][1])})
  IN SubSeq(sorted, 1, k) \o <<p>> \o SubSeq(sorted, k + 1, Len(sorted))

RECURSIVE SortAscN(_, _)
SortAscN(pairs, n) ==
  IF n = 0 THEN <<>> ELSE InsertAsc(SortAscN(pairs, n - 1), pairs[n])

OrderByAsc(pairs) ==
  LET sorted == SortAscN(pairs, Len(pairs))
  IN [i \in 1..Len(sorted) |-> sorted[i][2]]

\* the sort key of a timestamp: NULL sorts above every value (first in DESC,
\* last in ASC)
StampKey(t) == IF isna(t) THEN <<1, 0, 0>> ELSE <<0, Ordinal(t), t.sec>>

\* the sort key of a ROUND result that may be NULL
NumKey(v) == IF v = <<>> THEN <<1, 0>> ELSE <<0, v[1]>>

\* DATE_TRUNC('month', t)::date
MonthOf(t) == IF isna(t) THEN NaT ELSE [y |-> t.y, m |-> t.m, d |-> 1, sec |-> 0]

PrevDay(t) ==
  IF t.d > 1 THEN [t EXCEPT !.d = @ - 1]
  ELSE IF t.m > 1 THEN [t EXCEPT !.m = @ - 1, !.d = DaysInMonth(t.y, t.m - 1)]
  ELSE [t EXCEPT !.y = @ - 1, !.m = 12, !.d = 31]

RECURSIVE DaysBack(_, _)
DaysBack(t, k) == IF k = 0 THEN t ELSE DaysBack(PrevDay(t), k - 1)

\* DATE_TRUNC('week', t)::date: the Monday of the week of t
WeekOf(t) ==
  IF isna(t) THEN NaT
  ELSE DaysBack([t EXCEPT !.sec = 0], (Ordinal(t) - 1) % 7)

\* a < b of two timestamps; a comparison with NULL is not true
Before(a, b) ==
  /\ ~isna(a) /\ ~isna(b)
  /\ \/ Ordinal(a) < Ordinal(b)
     \/ Ordinal(a) = Ordinal(b) /\ a.sec < b.sec

NotBefore(a, b) == ~isna(a) /\ ~isna(b) /\ ~Before(a, b)

\* AVG of a float column over rows, rounded to 2 places: NULLs are skipped, and
\* the average of no value is NULL
AvgHours(rows) ==
  LET vals == SelectSeq([i \in 1..Len(rows) |-> rows[i].hours_worked],
                        LAMBDA h : h # <<>>)
  IN IF vals = <<>> THEN <<>>
     ELSE <<RoundDiv(SumSeq([i \in 1..Len(vals) |-> vals[i][1]]), Len(vals))>>

NormalWork(st) == SelectSeq(st, LAMBDA r : r.is_normal_work = 1)

kpi_active_headcount(se, st) ==
  LET e == Distinct([i \in 1..Len(se) |->
                       [client_employee_id |-> se[i].client_employee_id,
                        hire_date |-> se[i].hire_date,
                        term_date |-> se[i].term_date]])
      months == Distinct([i \in 1..Len(st) |-> MonthOf(st[i].punch_apply_date)])
      Active(x, p) == /\ NotBefore(p, x.hire_date)
                      /\ (isna(x.term_date) \/ Before(p, x.term_date))
      Counted(mo) ==
        {e[j].client_employee_id : j \in
           {j \in 1..Len(e) :
              /\ e[j].client_employee_id # NaN
              /\ \E i \in 1..Len(st) :
                   /\ MonthOf(st[i].punch_apply_date) = mo
                   /\ Active(e[j], st[i].punch_apply_date)}}
  IN IF e = <<>> THEN <<>>
     ELSE OrderByDesc([k \in 1..Len(months) |->
            <<StampKey(months[k]),
              [month |-> months[k], active_headcount |-> Cardinality(Counted(months[k]))]>>])

kpi_turnover_trend(se) ==
  LET t == SelectSeq(se, LAMBDA r : ~isna(r.term_date))
      months == Distinct([i \in 1..Len(t) |-> MonthOf(t[i].term_date)])
  IN OrderByDesc([k \in 1..Len(months) |->
       <<StampKey(months[k]),
         [month |-> months[k],
          terminations |-> Cardinality({i \in 1..Len(t) : MonthOf(t[i].term_date) = months[k]})]>>])

\* tenure_days is a float column as soon as one of its cells is NaN
TenureIsFloat(se) == \E i \in 1..Len(se) : se[i].tenure_days = <<>>

\* ROUND(AVG(tenure_days) / 365.25, 2), for a column of integers
AvgTenureYears(rows) ==
  RoundDiv(400 * SumSeq([i \in 1..Len(rows) |-> rows[i].tenure_days[1]]),
           1461 * Len(rows))

kpi_avg_tenure(se) ==
  LET t == SelectSeq(se, LAMBDA r : r.department_name # NaN)
      depts == Distinct([i \in 1..Len(t) |-> t[i].department_name])
      Of(dn) == SelectSeq(t, LAMBDA r : r.department_name = dn)
  IN OrderByDesc([k \in 1..Len(depts) |->
       <<<<AvgTenureYears(Of(depts[k]))>>,
         [department_name |-> depts[k],
          avg_tenure_years |-> AvgTenureYears(Of(depts[k])),
          employee_count |-> Len(Of(depts[k]))]>>])

kpi_avg_working_hours(st) ==
  LET t == NormalWork(st)
      groups == Distinct([i \in 1..Len(t) |->
                  <<t[i].client_employee_id, WeekOf(t[i].punch_apply_date)>>])
      Of(g) == SelectSeq(t, LAMBDA r :
                 <<r.client_employee_id, WeekOf(r.punch_apply_date)>> = g)
  IN OrderByDesc([k \in 1..Len(groups) |->
       <<StampKey(groups[k][2]) \o NumKey(AvgHours(Of(groups[k]))),
         [client_employee_id |-> groups[k][1],
          week |-> groups[k][2],
          avg_hours |-> AvgHours(Of(groups[k])),
          days_worked |-> Len(Of(groups[k]))]>>])

\* ROUND(AVG(minutes)::numeric, 2) of minutes counted in sixtieths
AvgMinutes(mins) == RoundDiv(100 * SumSeq(mins), 60 * Len(mins))

kpi_late_arrivals(st) ==
  LET t == SelectSeq(st, LAMBDA r : r.is_late = 1 /\ r.is_normal_work = 1)
      ids == Distinct([i \in 1..Len(t) |-> t[i].client_employee_id])
      Of(id) == SelectSeq(t, LAMBDA r : r.client_employee_id = id)
  IN OrderByDesc([k \in 1..Len(ids) |->
       <<<<Len(Of(ids[k]))>>,
         [client_employee_id |-> ids[k],
          late_arrival_count |-> Len(Of(ids[k])),
          avg_minutes_late |->
            AvgMinutes([i \in 1..Len(Of(ids[k])) |-> Of(ids[k])[i].minutes_late])]>>])

kpi_early_departures(st) ==
  LET t == SelectSeq(st, LAMBDA r : r.is_early = 1 /\ r.is_normal_work = 1)
      ids == Distinct([i \in 1..Len(t) |-> t[i].client_employee_id])
      Of(id) == SelectSeq(t, LAMBDA r : r.client_employee_id = id)
  IN OrderByDesc([k \in 1..Len(ids) |->
       <<<<Len(Of(ids[k]))>>,
         [client_employee_id |-> ids[k],
          early_departure_count |-> Len(Of(ids[k])),
          avg_minutes_early |->
            AvgMinutes([i \in 1..Len(Of(ids[k])) |-> Of(ids[k])[i].minutes_early])]>>])

\* the hours a day's work is compared with in total_extra_hours, in hundredths
RegularHours == 800

kpi_overtime(st) ==
  LET t == SelectSeq(st, LAMBDA r : r.is_overtime = 1 /\ r.is_normal_work = 1)
      ids == Distinct([i \in 1..Len(t) |-> t[i].client_employee_id])
      Of(id) == SelectSeq(t, LAMBDA r : r.client_employee_id = id)
  IN OrderByDesc([k \in 1..Len(ids) |->
       <<<<Len(Of(ids[k]))>>,
         [client_employee_id |-> ids[k],
          overtime_days |-> Len(Of(ids[k])),
          total_extra_hours |->
            SumSeq([i \in 1..Len(Of(ids[k])) |->
                      Of(ids[k])[i].hours_worked[1] - RegularHours])]>>])

\* (variant for C14) a window that reaches one row further back
PrecedingOneMore == 29 + 1

\* ROWS BETWEEN 29 PRECEDING AND CURRENT ROW
Preceding == 29

kpi_rolling_avg(st) ==
  LET t == NormalWork(st)
      ids == Distinct([i \in 1..Len(t) |-> t[i].client_employee_id])
      Part(id) ==
        LET rows == SelectSeq(t, LAMBDA r : r.client_employee_id = id)
        IN OrderByAsc([i \in 1..Len(rows) |-> <<StampKey(rows[i].punch_apply_date), rows[i]>>])
      Window(id) ==
        [k \in 1..Len(Part(id)) |->
           [client_employee_id |-> id,
            punch_apply_date |-> Part(id)[k].punch_apply_date,
            rolling_30day_avg |->
              AvgHours(SubSeq(Part(id), IF k > Preceding THEN k - Preceding ELSE 1, k))]]
      RECURSIVE All(_)
      All(n) == IF n = 0 THEN <<>> ELSE All(n - 1) \o Window(ids[n])
      out == All(Len(ids))
  IN OrderByDesc([i \in 1..Len(out) |-> <<StampKey(out[i].punch_apply_date), out[i]>>])

\* interval '90 days'
EarlyAttritionDays == 90

kpi_early_attrition(se) ==
  LET Tenure(r) == TotalSeconds(r.term_date, r.hire_date)
      t == SelectSeq(se, LAMBDA r : ~isna(r.term_date) /\ ~isna(r.hire_date))
  IN << [attrition_type |-> "Early Attrition (<90 days)",
         count |-> Len(SelectSeq(t, LAMBDA r : Tenure(r) < EarlyAttritionDays * 86400))],
        [attrition_type |-> "Other Attrition (>=90 days)",
         count |-> Len(SelectSeq(t, LAMBDA r : Tenure(r) >= EarlyAttritionDays * 86400))] >>

\* the SELECT of one entry of kpi_queries
KpiQuery(name, se, st) ==
  CASE name = "kpi_active_headcount"  -> kpi_active_headcount(se, st)
    [] name = "kpi_turnover_trend"    -> kpi_turnover_trend(se)
    [] name = "kpi_avg_tenure"        -> kpi_avg_tenure(se)
    [] name = "kpi_avg_working_hours" -> kpi_avg_working_hours(st)
    [] name = "kpi_late_arrivals"     -> kpi_late_arrivals(st)
    [] name = "kpi_early_departures"  -> kpi_early_departures(st)
    [] name = "kpi_overtime"          -> kpi_overtime(st)
    [] name = "kpi_rolling_avg"       -> kpi_rolling_avg(st)
    [] name = "kpi_early_attrition"   -> kpi_early_attrition(se)

\* the index of the first entry of kpi_queries whose statement raises, 0 when
\* none does: PostgreSQL has no round(double precision, integer), which
\* kpi_avg_tenure calls when tenure_days was written as a float column
FirstRaising(se) ==
  IF TenureIsFloat(se)
  THEN CHOOSE i \in 1..Len(kpi_queries) : kpi_queries[i] = "kpi_avg_tenure"
  ELSE 0

\* the gold tables after generate_kpis over the silver rows se and st: each
\* table up to the first raising statement is dropped and created anew
GenerateKpis(old, se, st) ==
  [t \in GoldTables |->
     IF \E i \in Materialized(FirstRaising(se)) : kpi_queries[i] = t
     THEN [exists |-> TRUE, rows |-> KpiQuery(t, se, st)]
     ELSE old[t]]

---------------------------------------------------------------------------
(* The input files of the model *)

E1 == <<"E", "1">>
E2 == <<"E", "2">>

\* a timesheet row of employee E1: Monday 2023-01-02, punched as scheduled
TsDefault ==
  [client_employee_id       |-> E1,
   punch_apply_date         |-> DateText(2023, 1, 2),
   punch_in_datetime        |-> StampText(2023, 1, 2, 8, 0, 0),
   punch_out_datetime       |-> StampText(2023, 1, 2, 17, 0, 0),
   scheduled_start_datetime |-> StampText(2023, 1, 2, 8, 0, 0),
   scheduled_end_datetime   |-> StampText(2023, 1, 2, 17, 0, 0),
   hours_worked             |-> <<"8">>,
   pay_code                 |-> normal_worked]

Unparsable == {<<"b", "a", "d">>, <<"?", "?">>}

\* rows that differ in the deduplication key
KeyRows ==
  {[TsDefault EXCEPT !.client_employee_id = i, !.punch_in_datetime = p] :
     i \in {E1, <<" ">> \o E1},
     p \in {StampText(2023, 1, 2, 8, 0, 0)} \cup Unparsable}

\* rows around the grace period of a late arrival
LateRows ==
  {[TsDefault EXCEPT !.punch_in_datetime = p] :
     p \in {StampText(2023, 1, 2, 8, 5, 0), StampText(2023, 1, 2, 8, 5, 1),
            StampText(2023, 1, 2, 7, 50, 0), <<>>}}
  \cup {[TsDefault EXCEPT !.punch_in_datetime = StampText(2023, 1, 2, 8, 10, 0),
                          !.scheduled_start_datetime = <<>>]}

\* rows around the grace period of an early departure
EarlyRows ==
  {[TsDefault EXCEPT !.punch_out_datetime = p] :
     p \in {StampText(2023, 1, 2, 16, 55, 0), StampText(2023, 1, 2, 16, 54, 59)}}
  \cup {[TsDefault EXCEPT !.punch_out_datetime = StampText(2023, 1, 2, 16, 50, 0),
                          !.scheduled_end_datetime = <<"b", "a", "d">>]}

\* a row of E2 in another month and week, late, long and not normal work; and an
\* overtime row of E1
OtherRows ==
  {[TsDefault EXCEPT !.client_employee_id = E2,
                     !.punch_apply_date = DateText(2023, 2, 7),
                     !.punch_in_datetime = StampText(2023, 2, 7, 8, 30, 0),
                     !.punch_out_datetime = StampText(2023, 2, 7, 18, 0, 0),
                     !.scheduled_start_datetime = StampText(2023, 2, 7, 8, 0, 0),
                     !.scheduled_end_datetime = StampText(2023, 2, 7, 17, 0, 0),
                     !.hours_worked = <<"9", ".", "5">>,
                     !.pay_code = <<"P", "T", "O">>],
   [TsDefault EXCEPT !.hours_worked = <<"8", ".", "5", "1">>,
                     !.pay_code = <<"N", "o", "r", "m", "a", "l", "_", "W", "o", "r",
                                    "k", "e", "d", " ", "H", "r", "s">>]}

TsRows == KeyRows \cup LateRows \cup EarlyRows \cup OtherRows

\* an employee of department Ops hired 2023-01-01 and still employed
EmpDefault ==
  [client_employee_id |-> E1,
   hire_date          |-> DateText(2023, 1, 1),
   term_date          |-> <<>>,
   department_name    |-> <<"O", "p", "s">>]

EmpTerminated ==
  [client_employee_id |-> E2,
   hire_date          |-> DateText(2023, 1, 1),
   term_date          |-> DateText(2023, 6, 15),
   department_name    |-> <<"E", "n", "g">>]

EmpRows ==
  {EmpDefault, EmpTerminated}
  \cup {[EmpDefault EXCEPT !.client_employee_id = i] : i \in {<<" ">> \o E1 \o <<" ">>, <<>>}}
  \cup {[EmpDefault EXCEPT !.hire_date = h] : h \in {DateText(2023, 3, 10), <<>>}}
  \cup {[EmpDefault EXCEPT !.term_date = t] :
          t \in {DateText(2023, 3, 31), DateText(2023, 4, 1), DateText(2022, 12, 1)}}
  \cup {[EmpDefault EXCEPT !.department_name = d] : d \in {<<"E", "n", "g">>, <<>>}}

SeqsUpTo(S, n) == UNION {[1..k -> S] : k \in 0..n}

\* the rows of the timesheet data dealt to two files, timesheet_1 and timesheet_2
SplitFiles(rows) ==
  LET k == (Len(rows) + 1) \div 2
  IN <<SubSeq(rows, 1, k), SubSeq(rows, k + 1, Len(rows))>>

\* the moments a run may take place
Nows ==
  {[y |-> 2024, m |-> 1, d |-> 1, sec |-> 66600],
   [y |-> 2024, m |-> 3, d |-> 1, sec |-> 32400]}

\* a <= b for timestamps that are not NaT
NotAfter(a, b) ==
  \/ Ordinal(a) < Ordinal(b)
  \/ Ordinal(a) = Ordinal(b) /\ a.sec <= b.sec

---------------------------------------------------------------------------
(* The run over the data, every read and write succeeding *)

D_extract_employees ==
  /\ dpc = "extract_employees"
  /\ emp_df' = ExtractEmployees(rosterFile)
  /\ dpc' = "extract_timesheets"
  /\ UNCHANGED <<rosterFile, timesheetFiles, drun, now, ts_df, emp_clean, ts_clean,
                 silver_employees, silver_timesheets, null_check, gold, gold1, now1>>
  /\ UNCHANGED pipeVars

D_extract_timesheets ==
  /\ dpc = "extract_timesheets"
  /\ ts_df' = ExtractTimesheets(timesheetFiles)
  /\ dpc' = "transform_employees"
  /\ UNCHANGED <<rosterFile, timesheetFiles, drun, now, emp_df, emp_clean, ts_clean,
                 silver_employees, silver_timesheets, null_check, gold, gold1, now1>>
  /\ UNCHANGED pipeVars

\* datetime.now() is read once, by transform_employees; the clock never runs back
D_transform_employees ==
  /\ dpc = "transform_employees"
  /\ \E n \in Nows :
       /\ IF isna(now) THEN TRUE ELSE NotAfter(now, n)
       /\ now' = n
       /\ emp_clean' = TransformEmployees(emp_df, n)
  /\ dpc' = "transform_timesheets"
  /\ UNCHANGED <<rosterFile, timesheetFiles, drun, emp_df, ts_df, ts_clean,
                 silver_employees, silver_timesheets, null_check, gold, gold1, now1>>
  /\ UNCHANGED pipeVars

D_transform_timesheets ==
  /\ dpc = "transform_timesheets"
  /\ ts_clean' = TransformTimesheets(ts_df)
  /\ dpc' = "load_to_silver"
  /\ UNCHANGED <<rosterFile, timesheetFiles, drun, now, emp_df, ts_df, emp_clean,
                 silver_employees, silver_timesheets, null_check, gold, gold1, now1>>
  /\ UNCHANGED pipeVars

D_load_to_silver ==
  /\ dpc = "load_to_silver"
  /\ silver_employees' = emp_clean
  /\ silver_timesheets' = ts_clean
  /\ dpc' = "validate_data_quality"
  /\ UNCHANGED <<rosterFile, timesheetFiles, drun, now, emp_df, ts_df, emp_clean,
                 ts_clean, null_check, gold, gold1, now1>>
  /\ UNCHANGED pipeVars

\* the null check of validate_data_quality: total, null_ids, null_dates
NullCheck(se) ==
  << Len(se),
     Len(SelectSeq(se, LAMBDA r : r.client_employee_id = NaN)),
     Len(SelectSeq(se, LAMBDA r : isna(r.hire_date))) >>

D_validate_data_quality ==
  /\ dpc = "validate_data_quality"
  /\ null_check' = NullCheck(silver_employees)
  /\ dpc' = "generate_kpis"
  /\ UNCHANGED <<rosterFile, timesheetFiles, drun, now, emp_df, ts_df, emp_clean,
                 ts_clean, silver_employees, silver_timesheets, gold, gold1, now1>>
  /\ UNCHANGED pipeVars

D_generate_kpis ==
  /\ dpc = "generate_kpis"
  /\ gold' = GenerateKpis(gold, silver_employees, silver_timesheets)
  /\ dpc' = "done"
  /\ UNCHANGED <<rosterFile, timesheetFiles, drun, now, emp_df, ts_df, emp_clean,
                 ts_clean, silver_employees, silver_timesheets, null_check, gold1, now1>>
  /\ UNCHANGED pipeVars

\* the flow is run once more over the same files
D_etl_pipeline ==
  /\ dpc = "done"
  /\ drun = 1
  /\ drun' = 2
  /\ dpc' = "extract_employees"
  /\ emp_df' = <<>>
  /\ ts_df' = <<>>
  /\ emp_clean' = <<>>
  /\ ts_clean' = <<>>
  /\ gold1' = gold
  /\ now1' = now
  /\ UNCHANGED <<rosterFile, timesheetFiles, now, silver_employees, silver_timesheets,
                 null_check, gold>>
  /\ UNCHANGED pipeVars

\* the files vary on one side at a time: the timesheet rows with a fixed roster,
\* or the roster rows with fixed timesheets
InitData ==
  /\ run = 0 /\ pc = "idle" /\ roster = "present" /\ timesheets = "present"
  /\ nullIds = 0 /\ store = [t \in Tables |-> 0] /\ silverNullIds = 0
  /\ storeAtStart = [t \in Tables |-> 0] /\ started = <<>> /\ completed = <<>>
  /\ attempts = [t \in Tasks |-> 0] /\ logged = {} /\ waited = 0 /\ kpiFailed = 0
  /\ \/ /\ rosterFile = <<EmpDefault, EmpTerminated>>
        /\ \E rows \in SeqsUpTo(TsRows, MaxTsRows) : timesheetFiles = SplitFiles(rows)
     \/ /\ rosterFile \in SeqsUpTo(EmpRows, MaxEmpRows)
        /\ timesheetFiles = SplitFiles(<<TsDefault, CHOOSE r \in OtherRows : r.client_employee_id = E2>>)
  /\ dpc = "extract_employees"
  /\ drun = 1
  /\ now = NaT
  /\ emp_df = <<>>
  /\ ts_df = <<>>
  /\ emp_clean = <<>>
  /\ ts_clean = <<>>
  /\ silver_employees = <<>>
  /\ silver_timesheets = <<>>
  /\ null_check = <<0, 0, 0>>
  /\ gold = [t \in GoldTables |-> [exists |-> FALSE, rows |-> <<>>]]
  /\ gold1 = gold
  /\ now1 = NaT

NextData ==
  \/ D_extract_employees
  \/ D_extract_timesheets
  \/ D_transform_employees
  \/ D_transform_timesheets
  \/ D_load_to_silver
  \/ D_validate_data_quality
  \/ D_generate_kpis
  \/ D_etl_pipeline

SpecData == InitData /\ [][NextData]_vars

---------------------------------------------------------------------------
(* The input files of the cases *)

\* a timesheet row of employee id on a day, punched as scheduled
TsOn(id, y, m, d, hours, code) ==
  [client_employee_id       |-> id,
   punch_apply_date         |-> DateText(y, m, d),
   punch_in_datetime        |-> StampText(y, m, d, 8, 0, 0),
   punch_out_datetime       |-> StampText(y, m, d, 17, 0, 0),
   scheduled_start_datetime |-> StampText(y, m, d, 8, 0, 0),
   scheduled_end_datetime   |-> StampText(y, m, d, 17, 0, 0),
   hours_worked             |-> hours,
   pay_code                 |-> code]

\* rows around the overtime threshold, and one without hours
HoursRows ==
  {TsOn(E1, 2023, 1, 3, <<"8", ".", "5">>, normal_worked),
   TsOn(E1, 2023, 1, 4, <<"8", ".", "5", "1">>, normal_worked),
   TsOn(E1, 2023, 1, 5, <<>>, normal_worked),
   TsOn(E2, 2023, 1, 3, <<"8", ".", "4", "9">>, normal_worked)}

E3 == <<"E", "3">>
E4 == <<"E", "4">>
E5 == <<"E", "5">>
E6 == <<"E", "6">>
E7 == <<"E", "7">>

\* roster rows: still employed; hired after the termination; dates that are no
\* dates or missing; terminated 89 and 90 days after the hire
TenureRows ==
  {EmpDefault,
   [EmpDefault EXCEPT !.client_employee_id = E2, !.hire_date = DateText(2023, 6, 1),
                      !.term_date = DateText(2023, 3, 1)],
   [EmpDefault EXCEPT !.client_employee_id = E3, !.hire_date = <<"b", "a", "d">>,
                      !.term_date = DateText(2023, 3, 1)],
   [EmpDefault EXCEPT !.client_employee_id = E4, !.term_date = <<"n", "/", "a">>],
   [EmpDefault EXCEPT !.client_employee_id = E5, !.hire_date = <<>>,
                      !.term_date = DateText(2023, 2, 1)],
   [EmpDefault EXCEPT !.client_employee_id = E6, !.term_date = DateText(2023, 3, 31)],
   [EmpDefault EXCEPT !.client_employee_id = E7, !.term_date = DateText(2023, 4, 1)]}

\* punch dates before the hire of E1 and E2, in the months up to the termination
\* of E2 on 2023-06-15, in its month before and after that day, and later
MonthRows ==
  {TsOn(E1, 2022, 12, 15, <<"8">>, normal_worked),
   TsOn(E1, 2023, 1, 2, <<"8">>, normal_worked),
   TsOn(E1, 2023, 5, 31, <<"8">>, normal_worked),
   TsOn(E1, 2023, 6, 10, <<"8">>, normal_worked),
   TsOn(E1, 2023, 6, 20, <<"8">>, normal_worked),
   TsOn(E1, 2023, 7, 3, <<"8">>, normal_worked)}

\* the sequence in reverse order
Reverse(q) == [i \in 1..Len(q) |-> q[Len(q) + 1 - i]]

\* the k-th day of 2023, up to the end of February
DayRow(k, hours, code) ==
  IF k <= 31 THEN TsOn(E1, 2023, 1, k, hours, code)
  ELSE TsOn(E1, 2023, 2, k - 31, hours, code)

\* a row of E1 for each of MaxDays consecutive days from 2023-01-01, of 8 hours
\* but for 9.5 hours on the day peak and a day off (PTO, 0 hours) on the day
\* off, and a row of E2 of 4 hours on the second day; in date order or reversed
DailyRows(peak, off, reversed) ==
  LET days == [k \in 1..MaxDays |->
                 IF k = off THEN DayRow(k, <<"0">>, <<"P", "T", "O">>)
                 ELSE DayRow(k, IF k = peak THEN <<"9", ".", "5">> ELSE <<"8">>,
                             normal_worked)]
      rows == SubSeq(days, 1, 2) \o <<TsOn(E2, 2023, 1, 2, <<"4">>, normal_worked)>>
                \o SubSeq(days, 3, MaxDays)
  IN IF reversed THEN Reverse(rows) ELSE rows

DailyCases ==
  {<<1, 0, FALSE>>, <<5, 3, FALSE>>, <<31, 0, TRUE>>, <<6, 33, TRUE>>}

\* a day of employee number i on which they punch in 10 minutes late, punch out
\* 10 minutes early and are paid 9 hours
FlaggedRow(i, d) ==
  [TsOn(<<"E">> \o Digit2(i), 2023, 1, d, <<"9">>, normal_worked)
     EXCEPT !.punch_in_datetime = StampText(2023, 1, d, 8, 10, 0),
            !.punch_out_datetime = StampText(2023, 1, d, 16, 50, 0)]

\* such a day for each of n employees, and a second one for the employee twice
CrowdRows(n, twice) ==
  [i \in 1..n |-> FlaggedRow(i, 2)] \o <<FlaggedRow(twice, 3)>>

CrowdCases ==
  {<<n, twice>> : n \in {MaxEmployees - 1, MaxEmployees}, twice \in {1, MaxEmployees - 1}}

\* the state before the first run over the files
DataStart ==
  /\ run = 0 /\ pc = "idle" /\ roster = "present" /\ timesheets = "present"
  /\ nullIds = 0 /\ store = [t \in Tables |-> 0] /\ silverNullIds = 0
  /\ storeAtStart = [t \in Tables |-> 0] /\ started = <<>> /\ completed = <<>>
  /\ attempts = [t \in Tasks |-> 0] /\ logged = {} /\ waited = 0 /\ kpiFailed = 0
  /\ dpc = "extract_employees"
  /\ drun = 1
  /\ now = NaT
  /\ emp_df = <<>>
  /\ ts_df = <<>>
  /\ emp_clean = <<>>
  /\ ts_clean = <<>>
  /\ silver_employees = <<>>
  /\ silver_timesheets = <<>>
  /\ null_check = <<0, 0, 0>>
  /\ gold = [t \in GoldTables |-> [exists |-> FALSE, rows |-> <<>>]]
  /\ gold1 = gold
  /\ now1 = NaT

\* the files of one case at a time
InitCases ==
  /\ DataStart
  /\ \/ /\ rosterFile = <<EmpDefault, EmpTerminated>>
        /\ \E rows \in SeqsUpTo(HoursRows, MaxHoursRows) : timesheetFiles = SplitFiles(rows)
     \/ /\ rosterFile \in SeqsUpTo(TenureRows, MaxTenureRows)
        /\ timesheetFiles = SplitFiles(<<TsDefault>>)
     \/ /\ rosterFile = <<EmpDefault, EmpTerminated>>
        /\ \E rows \in SeqsUpTo(MonthRows, MaxMonthRows) : timesheetFiles = SplitFiles(rows)
     \/ /\ rosterFile = <<EmpDefault, EmpTerminated>>
        /\ \E c \in DailyCases : timesheetFiles = SplitFiles(DailyRows(c[1], c[2], c[3]))
     \/ /\ rosterFile = <<EmpDefault, EmpTerminated>>
        /\ \E c \in CrowdCases : timesheetFiles = SplitFiles(CrowdRows(c[1], c[2]))

SpecCases == InitCases /\ [][NextData]_vars

---------------------------------------------------------------------------
(* Properties of the orchestration, checked under Spec *)

InSeq(x, s) == \E i \in 1..Len(s) : s[i] = x

Last(s) == s[Len(s)]

RunOver == pc \in {"completed", "failed"}

\* C1: the tasks of a run start in the order of the flow, each only after the
\* one before it has returned normally; generate_kpis starts only after
\* load_to_silver has returned normally.
StagesInOrder ==
  /\ started = SubSeq(Flow, 1, Len(started))
  /\ completed = SubSeq(Flow, 1, Len(completed))
  /\ Len(completed) \in {Len(started) - 1, Len(started)}
  /\ \A i \in 2..Len(started) : InSeq(started[i - 1], completed)
  /\ InSeq("generate_kpis", started) => InSeq("load_to_silver", completed)

StagesInOrderWitness ==
  /\ pc = "generate_kpis"
  /\ attempts["load_to_bronze"] = 3
  /\ completed = SubSeq(Flow, 1, 7)

\* C2 (as claimed): when one KPI query raises, the raise is logged, the other
\* eight tables are materialized by this run and the run completes.
KpiFailureIsolated ==
  kpiFailed # 0 =>
    /\ "kpi_generation_failed" \in logged
    /\ pc = "completed"
    /\ \A i \in 1..Len(kpi_queries) :
         i # kpiFailed => store[kpi_queries[i]] = run

\* C3 (as claimed): once load_to_silver has returned, the run ends with all nine
\* KPI tables materialized by it, however validate_data_quality ended.
QualityGateNeverBlocks ==
  (InSeq("load_to_silver", completed) /\ RunOver) =>
    \A t \in GoldTables : store[t] = run

\* C3 (amended): once validate_data_quality has computed its null check it
\* returns and generate_kpis is started, whatever the check counted; null ids
\* add a warning to the log and nothing else; only an attempt that raised ends
\* the run before generate_kpis.
QualityFindingsNeverBlock ==
  /\ "null_check" \in logged =>
       /\ InSeq("validate_data_quality", completed)
       /\ InSeq("generate_kpis", started)
  /\ "null_id_warning" \in logged <=> ("null_check" \in logged /\ silverNullIds > 0)
  /\ (pc = "failed" /\ started # <<>> /\ Last(started) = "validate_data_quality") =>
       /\ "quality_check_failed" \in logged
       /\ ~InSeq("generate_kpis", started)

QualityFindingsNeverBlockWitness ==
  /\ pc = "completed"
  /\ "null_id_warning" \in logged
  /\ silverNullIds > 0
  /\ \A t \in GoldTables : store[t] = run

\* C4: a run whose roster file is missing or unreadable never gets past
\* extract_employees, fails once its attempts are used up, and leaves every
\* table of the store as it was when the run started.
NoRosterNoMutation ==
  roster # "present" =>
    /\ store = storeAtStart
    /\ started = <<"extract_employees">>
    /\ completed = <<>>
    /\ pc = (IF attempts["extract_employees"] <= Retries("extract_employees")
             THEN "extract_employees" ELSE "failed")

NoRosterNoMutationWitness ==
  /\ roster = "missing"
  /\ pc = "failed"
  /\ run = 2
  /\ \A t \in Tables : store[t] = 1

\* C5 (as claimed): a run that completed has replaced all nine KPI tables, and a
\* run that failed has left every KPI table as it was when the run started.
GoldAllOrNothing ==
  /\ pc = "completed" => \A t \in GoldTables : store[t] = run
  /\ pc = "failed" => \A t \in GoldTables : store[t] = storeAtStart[t]

IoTasks == {"extract_employees", "extract_timesheets", "load_to_bronze", "load_to_silver"}

\* C6 (as claimed): a run that ended on a failure of a file-read or table-write
\* task has made three attempts of that task (two retries, each after the
\* fixed delay).
IoFailuresRetried ==
  \A t \in IoTasks :
    (pc = "failed" /\ started # <<>> /\ Last(started) = t) =>
      /\ attempts[t] = 2 + 1
      /\ waited >= 2 * retry_delay_seconds

---------------------------------------------------------------------------
(* Properties of the data, checked under SpecData *)

SecondRunDone == drun = 2 /\ dpc = "done"

SameWholeDays ==
  \A i \in 1..Len(silver_employees) :
    LET r == silver_employees[i]
    IN (isna(r.term_date) /\ ~isna(r.hire_date)) =>
         DaysBetween(now, r.hire_date) = DaysBetween(now1, r.hire_date)

SilverOneRowPerKey ==
  /\ \A i, j \in 1..Len(silver_employees) :
       i # j => silver_employees[i].client_employee_id
                  # silver_employees[j].client_employee_id
  /\ \A i, j \in 1..Len(silver_timesheets) :
       i # j => <<silver_timesheets[i].client_employee_id,
                  silver_timesheets[i].punch_in_datetime>>
                  # <<silver_timesheets[j].client_employee_id,
                      silver_timesheets[j].punch_in_datetime>>

\* C9 (as claimed): every text cell of the extracted roster and of the extracted
\* timesheet data is trimmed, so timesheet identifiers that differ only by
\* surrounding blanks in the files are equal after extraction.
ExtractTrimsCells ==
  /\ \A i \in 1..Len(emp_df) :
       /\ emp_df[i].client_employee_id = StripCell(emp_df[i].client_employee_id)
       /\ emp_df[i].department_name = StripCell(emp_df[i].department_name)
  /\ \A i \in 1..Len(ts_df) :
       /\ ts_df[i].client_employee_id = StripCell(ts_df[i].client_employee_id)
       /\ ts_df[i].pay_code = StripCell(ts_df[i].pay_code)
  /\ \A i, j \in 1..Len(ts_df) :
       LET rows == timesheetFiles[1] \o timesheetFiles[2]
       IN strip(rows[i].client_employee_id) = strip(rows[j].client_employee_id)
            => ts_df[i].client_employee_id = ts_df[j].client_employee_id

\* C10: in every row of silver_timesheets minutes_late is punch_in_datetime minus
\* scheduled_start_datetime, and 0 when one of the two is missing; is_late is 1
\* exactly when that is more than 5 minutes; minutes_early and is_early are the
\* same for scheduled_end_datetime minus punch_out_datetime. (Sixtieths of a
\* minute.)
LateEarlyDerivation ==
  \A i \in 1..Len(silver_timesheets) :
    LET r == silver_timesheets[i]
        Minus(a, b) == IF a = NaT \/ b = NaT THEN 0
                       ELSE (Ordinal(a) - Ordinal(b)) * 24 * 3600 + a.sec - b.sec
        late  == Minus(r.punch_in_datetime, r.scheduled_start_datetime)
        early == Minus(r.scheduled_end_datetime, r.punch_out_datetime)
    IN /\ r.minutes_late = late
       /\ r.minutes_early = early
       /\ r.is_late = (IF late > 5 * 60 THEN 1 ELSE 0)
       /\ r.is_early = (IF early > 5 * 60 THEN 1 ELSE 0)

LateEarlyDerivationWitness ==
  \E i, j \in 1..Len(silver_timesheets) :
    /\ silver_timesheets[i].minutes_late = 5 * 60
    /\ silver_timesheets[i].is_late = 0
    /\ isna(silver_timesheets[j].punch_in_datetime)
    /\ ~isna(silver_timesheets[j].scheduled_start_datetime)
    /\ silver_timesheets[j].minutes_late = 0
    /\ silver_timesheets[j].is_late = 0

---------------------------------------------------------------------------
(* Properties of the row flags and the KPI tables, checked under SpecCases *)

\* C11: in every row of silver_timesheets is_overtime is 1 exactly when
\* hours_worked is present and more than 8.5 hours (hours in hundredths): 8.5
\* hours or no hours give 0, 8.51 hours give 1.
OvertimeStrictlyAbove ==
  \A i \in 1..Len(silver_timesheets) :
    LET r == silver_timesheets[i]
    IN /\ r.is_overtime \in {0, 1}
       /\ r.is_overtime = 1 <=> (r.hours_worked # <<>> /\ r.hours_worked[1] > 850)

OvertimeStrictlyAboveWitness ==
  \E i, j, k \in 1..Len(silver_timesheets) :
    /\ silver_timesheets[i].hours_worked = <<850>>
    /\ silver_timesheets[i].is_overtime = 0
    /\ silver_timesheets[j].hours_worked = <<851>>
    /\ silver_timesheets[j].is_overtime = 1
    /\ silver_timesheets[k].hours_worked = <<>>
    /\ silver_timesheets[k].is_overtime = 0

\* the whole days from hire to the end of a tenure: the days between two dates,
\* and between a date and any time of a later day
WholeDays(hire, end) == Ordinal(end) - Ordinal(hire)

\* the rows of a frame or table of employees carry is_active and tenure_days
\* as specified, for a run at time n
TenureDerived(rows, n) ==
  \A i \in 1..Len(rows) :
    LET r == rows[i]
    IN /\ r.is_active \in {0, 1}
       /\ r.is_active = 1 <=> r.term_date = NaT
       /\ r.hire_date # NaT =>
            r.tenure_days = << WholeDays(r.hire_date,
                                         IF r.term_date = NaT THEN n ELSE r.term_date) >>

\* C12: in every employee row that transform_employees returns and silver
\* stores, is_active is 1 exactly when term_date is missing and tenure_days is
\* the whole days from hire_date to term_date, or to the time of the run when
\* term_date is missing, negative when hire_date is after term_date; and
\* transform_employees returns a row for every identifier of the extracted
\* frame, whatever the date fields hold.
TenureAndActive ==
  /\ TenureDerived(emp_clean, now)
  /\ dpc \in {"validate_data_quality", "generate_kpis", "done"} =>
       TenureDerived(silver_employees, now)
  /\ dpc \in {"transform_timesheets", "load_to_silver", "validate_data_quality",
              "generate_kpis", "done"} =>
       Len(emp_clean) = Cardinality({emp_df[i].client_employee_id : i \in 1..Len(emp_df)})

TenureAndActiveWitness ==
  /\ dpc = "done"
  /\ now.y = 2024 /\ now.m = 1 /\ now.d = 1 /\ now.sec > 0
  /\ \E i, j, k \in 1..Len(silver_employees) :
       /\ silver_employees[i].hire_date = [y |-> 2023, m |-> 1, d |-> 1, sec |-> 0]
       /\ silver_employees[i].term_date = NaT
       /\ silver_employees[i].is_active = 1
       /\ silver_employees[i].tenure_days = <<365>>
       /\ silver_employees[j].is_active = 0
       /\ silver_employees[j].tenure_days # <<>>
       /\ silver_employees[j].tenure_days[1] < 0
       /\ rosterFile[k].hire_date = <<"b", "a", "d">>
       /\ silver_employees[k].hire_date = NaT
       /\ silver_employees[k].tenure_days = <<>>

\* the first day of the month of a date
FirstOfMonth(t) == [y |-> t.y, m |-> t.m, d |-> 1, sec |-> 0]

\* the employees of silver that left in the month mo or before it
LeftByMonth(mo) ==
  {silver_employees[i].client_employee_id : i \in
     {i \in 1..Len(silver_employees) :
        /\ silver_employees[i].term_date # NaT
        /\ Ordinal(FirstOfMonth(silver_employees[i].term_date)) <= Ordinal(mo)}}

\* the employees of silver hired by the first day of the month mo that left in
\* a later month
EmployedThroughMonth(mo) ==
  {silver_employees[i].client_employee_id : i \in
     {i \in 1..Len(silver_employees) :
        /\ silver_employees[i].term_date # NaT
        /\ silver_employees[i].hire_date # NaT
        /\ Ordinal(silver_employees[i].hire_date) <= Ordinal(mo)
        /\ Ordinal(FirstOfMonth(silver_employees[i].term_date)) > Ordinal(mo)}}

\* C13 (as claimed): the active_headcount of a month counts no employee whose
\* term_date falls in that month or an earlier one, and counts every employee
\* hired by the first day of the month whose term_date falls in a later month.
HeadcountStopsAtTermMonth ==
  dpc = "done" =>
    \A k \in 1..Len(gold["kpi_active_headcount"].rows) :
      LET g == gold["kpi_active_headcount"].rows[k]
          ids == {silver_employees[i].client_employee_id : i \in 1..Len(silver_employees)}
      IN g.month # NaT =>
           /\ g.active_headcount <= Cardinality(ids \ LeftByMonth(g.month))
           /\ g.active_headcount >= Cardinality(EmployedThroughMonth(g.month))

\* a number that grows with the calendar date
DayKey(t) == (t.y * 12 + t.m) * 31 + t.d

\* the rows of silver_timesheets (by index) of employee id among the rows S
RowsOf(id, S) == {i \in S : silver_timesheets[i].client_employee_id = id}

\* the rows S carry punch dates, no two the same
DatedApart(S) ==
  /\ \A i \in S : silver_timesheets[i].punch_apply_date # NaT
  /\ \A i, j \in S :
       i # j => silver_timesheets[i].punch_apply_date # silver_timesheets[j].punch_apply_date

\* the row i of S and the rows of S before it in date order, 30 rows at most
Trailing30(S, i) ==
  {j \in S :
     /\ DayKey(silver_timesheets[j].punch_apply_date)
          <= DayKey(silver_timesheets[i].punch_apply_date)
     /\ Cardinality({l \in S :
           /\ DayKey(silver_timesheets[l].punch_apply_date)
                > DayKey(silver_timesheets[j].punch_apply_date)
           /\ DayKey(silver_timesheets[l].punch_apply_date)
                <= DayKey(silver_timesheets[i].punch_apply_date)}) < 30}

RECURSIVE HoursOver(_)
HoursOver(W) ==
  IF W = {} THEN 0
  ELSE LET i == CHOOSE i \in W : TRUE
       IN silver_timesheets[i].hours_worked[1] + HoursOver(W \ {i})

\* the mean of hours_worked over the rows W that carry hours, to the nearest
\* hundredth; no value when none carries hours
MeanHours(W) ==
  LET V == {i \in W : silver_timesheets[i].hours_worked # <<>>}
  IN IF V = {} THEN <<>>
     ELSE << (2 * HoursOver(V) + Cardinality(V)) \div (2 * Cardinality(V)) >>

\* kpi_rolling_avg holds, for each employee of the rows S whose punch dates are
\* apart, one row per row of S with the mean over its trailing 30 rows, and
\* holds as many rows as S
RollingOver(S) ==
  /\ Len(gold["kpi_rolling_avg"].rows) = Cardinality(S)
  /\ \A i \in S :
       LET id == silver_timesheets[i].client_employee_id
           E == RowsOf(id, S)
           G == {k \in 1..Len(gold["kpi_rolling_avg"].rows) :
                   /\ gold["kpi_rolling_avg"].rows[k].client_employee_id = id
                   /\ gold["kpi_rolling_avg"].rows[k].punch_apply_date
                        = silver_timesheets[i].punch_apply_date}
       IN DatedApart(E) =>
            /\ Cardinality(G) = 1
            /\ \A k \in G : gold["kpi_rolling_avg"].rows[k].rolling_30day_avg
                               = MeanHours(Trailing30(E, i))

\* C14 (as claimed): kpi_rolling_avg, once created, holds a row for every row of
\* silver_timesheets, with the mean of hours_worked over that row and up to 29
\* rows before it among all the rows of its employee in punch date order.
RollingOverAllRows ==
  (dpc = "done" /\ gold["kpi_rolling_avg"].exists) =>
    RollingOver(1..Len(silver_timesheets))

\* C14 (amended): kpi_rolling_avg holds a row for every row of silver_timesheets
\* with is_normal_work = 1, with the mean of hours_worked, to two places, over
\* that row and up to 29 rows before it among the is_normal_work rows of its
\* employee in punch date order (the employee's punch dates being distinct);
\* the run creates the table unless an earlier query of the catalogue raised.
RollingOverNormalRows ==
  dpc = "done" =>
    IF gold["kpi_rolling_avg"].exists
    THEN RollingOver({i \in 1..Len(silver_timesheets) :
                        silver_timesheets[i].is_normal_work = 1})
    ELSE \E f \in 1..Len(kpi_queries) :
           /\ f = FirstRaising(silver_employees)
           /\ \E g \in (f + 1)..Len(kpi_queries) : kpi_queries[g] = "kpi_rolling_avg"

RollingOverNormalRowsWitness ==
  /\ dpc = "done"
  /\ \E i, j \in 1..Len(silver_timesheets) :
       /\ silver_timesheets[i].client_employee_id = silver_timesheets[j].client_employee_id
       /\ silver_timesheets[i].is_normal_work = 0
       /\ silver_timesheets[j].is_normal_work = 1
  /\ \E k, l \in 1..Len(gold["kpi_rolling_avg"].rows) :
       /\ gold["kpi_rolling_avg"].rows[k].punch_apply_date = [y |-> 2023, m |-> 2, d |-> 4, sec |-> 0]
       /\ gold["kpi_rolling_avg"].rows[k].rolling_30day_avg = <<800>>
       /\ gold["kpi_rolling_avg"].rows[l].punch_apply_date = [y |-> 2023, m |-> 1, d |-> 5, sec |-> 0]
       /\ gold["kpi_rolling_avg"].rows[l].rolling_30day_avg = <<838>>

\* the rows of silver_timesheets of employee id that carry the flag
FlagCount(flag, id) ==
  Cardinality({i \in 1..Len(silver_timesheets) :
                 /\ silver_timesheets[i].client_employee_id = id
                 /\ silver_timesheets[i][flag] = 1})

\* the table holds one row for each of the (at most 20) employees with the most
\* rows that carry the flag, with that count, the highest first
TopTwenty(table, flag, count) ==
  LET rows == gold[table].rows
      flagged == {silver_timesheets[i].client_employee_id : i \in
                    {i \in 1..Len(silver_timesheets) : silver_timesheets[i][flag] = 1}}
      listed == {rows[k].client_employee_id : k \in 1..Len(rows)}
  IN /\ Len(rows) <= 20
     /\ Len(rows) = (IF Cardinality(flagged) < 20 THEN Cardinality(flagged) ELSE 20)
     /\ Cardinality(listed) = Len(rows)
     /\ listed \subseteq flagged
     /\ \A k \in 1..Len(rows) : rows[k][count] = FlagCount(flag, rows[k].client_employee_id)
     /\ \A k \in 1..(Len(rows) - 1) : rows[k][count] >= rows[k + 1][count]
     /\ \A id \in flagged \ listed :
          \A k \in 1..Len(rows) : rows[k][count] >= FlagCount(flag, id)

\* C15 (as claimed): once created, each of kpi_late_arrivals,
\* kpi_early_departures and kpi_overtime holds at most 20 rows, one per employee:
\* the employees with the most rows carrying is_late (is_early, is_overtime), in
\* descending order of that count.
FlagTablesTopTwenty ==
  /\ (dpc = "done" /\ gold["kpi_late_arrivals"].exists) =>
       TopTwenty("kpi_late_arrivals", "is_late", "late_arrival_count")
  /\ (dpc = "done" /\ gold["kpi_early_departures"].exists) =>
       TopTwenty("kpi_early_departures", "is_early", "early_departure_count")
  /\ (dpc = "done" /\ gold["kpi_overtime"].exists) =>
       TopTwenty("kpi_overtime", "is_overtime", "overtime_days")

\* C16 (as claimed): after a run the counts of the two rows of
\* kpi_early_attrition add up to the number of rows of silver_employees with a
\* term_date, whether or not these carry a hire_date.
AttritionPartitions ==
  dpc = "done" =>
    LET rows == gold["kpi_early_attrition"].rows
    IN SumSeq([k \in 1..Len(rows) |-> rows[k].count])
         = Cardinality({i \in 1..Len(silver_employees) :
                          silver_employees[i].term_date # NaT})

---------------------------------------------------------------------------
(* A property of the orchestration, checked under Spec *)

\* C17: in a run that finds the roster file but no timesheet file,
\* extract_timesheets never returns: it is attempted three times and the run
\* fails; load_to_bronze is never started and every table of the store stays as
\* it was when the run started.
NoTimesheetsNoMutation ==
  (run > 0 /\ roster = "present" /\ timesheets = "missing") =>
    /\ store = storeAtStart
    /\ ~InSeq("extract_timesheets", completed)
    /\ ~InSeq("load_to_bronze", started)
    /\ pc \in {"extract_employees", "extract_timesheets", "failed"}
    /\ InSeq("extract_timesheets", started) =>
         /\ pc = (IF attempts["extract_timesheets"] <= 2 THEN "extract_timesheets"
                  ELSE "failed")
         /\ attempts["extract_timesheets"] <= 3
         /\ pc = "failed" => "timesheet_extraction_failed" \in logged

NoTimesheetsNoMutationWitness ==
  /\ roster = "present"
  /\ timesheets = "missing"
  /\ pc = "failed"
  /\ completed = <<"extract_employees">>
  /\ attempts["extract_timesheets"] = 3
  /\ run = 2
  /\ \A t \in Tables : store[t] = 1

====
